---- MODULE Spec2Model ----
(***************************************************************************)
(* Rawi AI: the novel-writing session of App (services/geminiService.ts,   *)
(* second half) with the Gemini service functions it awaits.               *)
(*                                                                         *)
(* JavaScript values are modelled as strings: Undefined stands for the JS  *)
(* value undefined, "" for the empty string, "true" / "false" for the      *)
(* booleans of the optional Chapter.isGenerating field.  Array indexes are *)
(* 0-based as in the source; At(outline, index) reads outline[index].      *)
(*                                                                         *)
(* Every handler runs to its first await in one step, and every promise    *)
(* continuation runs to the next await (or to the end) in one step: the    *)
(* JS event loop runs them to completion, and React commits the state      *)
(* updates of one such run together.  alert() blocks the event loop until  *)
(* the dialog is closed.                                                   *)
(***************************************************************************)
EXTENDS Integers, Sequences, FiniteSets, TLC

\* ---------------------------------------------------------------- bounds
MaxChapters == 2     \* longest outline the provider returns in the model
MaxOps == 2          \* chapter operations (generate / twist) started in a run
MaxPlays == 2        \* audio playbacks started in a run

\* ------------------------------------------------------------- JS values
Undefined == "<undefined>"
Null == "<null>"

\* JS truthiness of the values the handlers test with ||, ! and if
Truthy(v) == v \notin {Undefined, Null, "", "false"}

\* a || b
OrElse(a, b) == IF Truthy(a) THEN a ELSE b

\* ------------------------------------------------------------ vocabulary
Premises == {"premiseA", "premiseB"}
EmptyConfig == "{}"

\* the p-th chapter stub of the provider's outline for any premise
Stub(p) == [title |-> "t" \o ToString(p), summary |-> "s" \o ToString(p)]

ContentFallback == "no-text-for-this-chapter"
OutlineErrorMsg == "outline-error"
GenerateAlertMsg == "generate-chapter-failed"
TwistAlertMsg == "twist-failed"
AudioAlertMsg == "audio-failed"

\* no alert() dialog is open
NoAlert == [msg |-> Null, err |-> Null]

SETUP == "SETUP"
READING == "READING"

VARIABLES
    apiKey,      \* process.env.API_KEY is set (fixed for the whole session)
    appState,    \* useState<AppState>
    isLoading,   \* useState(false)
    error,       \* useState<string | null>
    novelData,   \* useState<NovelData>: config, outline, currentChapterIndex
    startCall,   \* the handleStart invocation awaiting generateNovelOutline, and
                 \* the provider's response its await last received
    ops,         \* the handleGenerateChapter / handleTwist invocations
    alertOpen,   \* the catch block blocked in alert(): the message on screen and
                 \* the service call whose error it caught (console.error(err))
    lastCall,    \* the latest start / generate-chapter / twist invocation by the user
    download,    \* the file the latest export handed to the browser
    audioState,  \* NovelReader useState<'idle' | 'loading' | 'playing'>
    audioSourceRef,  \* NovelReader audioSourceRef.current: a clip, or NoSource for null
    plays        \* the handlePlayAudio invocations: the speech request each awaits
                 \* and the AudioBufferSourceNode (clip) it then starts

\* the state owned by NovelReader
readerVars == <<download, audioState, audioSourceRef, plays>>

vars == <<apiKey, appState, isLoading, error, novelData, startCall, ops, alertOpen, lastCall,
          download, audioState, audioSourceRef, plays>>

\* ------------------------------------------------------------- data model
At(outline, index) == outline[index + 1]

Indexes(outline) == 0 .. (Len(outline) - 1)

\* mutant: the update also moves the cursor to the patched chapter
ReplaceChapter_MovesCursor(prev, index, chapter) ==
    [prev EXCEPT !.outline = [prev.outline EXCEPT ![index + 1] = chapter],
                 !.currentChapterIndex = index]

\* mutant: the patched chapter is pushed instead of replacing element index
ReplaceChapter_Pushes(prev, index, chapter) ==
    [prev EXCEPT !.outline = Append(prev.outline, chapter)]

\* newOutline = [...prev.outline]; newOutline[index] = chapter; {...prev, outline: newOutline}
ReplaceChapter(prev, index, chapter) ==
    [prev EXCEPT !.outline = [prev.outline EXCEPT ![index + 1] = chapter]]

NoChapter == [id |-> 0, title |-> "", summary |-> "", content |-> Undefined, isGenerating |-> Undefined]

NoOp == [kind |-> "none", pc |-> "none", index |-> 0, chapter |-> NoChapter,
         context |-> "", newSummary |-> Undefined]

DoneOp == [NoOp EXCEPT !.pc = "done"]

InFlight(op) == op.pc \in {"awaitContent", "awaitTwist", "awaitTwistContent"}

OpIds == 1 .. MaxOps

\* the next unused invocation slot, 0 when the run's budget is spent
FreeOp == IF \E k \in OpIds : ops[k].pc = "none"
          THEN CHOOSE k \in OpIds : ops[k].pc = "none" /\ \A j \in OpIds : j < k => ops[j].pc # "none"
          ELSE 0

NoCall == [name |-> "none", index |-> 0]

Call(name, index) == [name |-> name, index |-> index]

\* ------------------------------------------------------ generation client
\* what `await ai.models.generateContent(...)` gives: Throws when the call
\* rejects (transport or provider error), otherwise the response's text
Throws == "<throws>"

\* replies to the outline request: text is the JSON text (or none), chapters
\* the array under its "chapters" key when the text is an object having one
OutlineResponses ==
    {[text |-> t, chapters |-> <<>>] : t \in {Throws, Undefined, "", "malformed", "no-chapters-key"}}
    \cup {[text |-> "json", chapters |-> [p \in 1 .. n |-> Stub(p)]] : n \in 0 .. MaxChapters}

\* no request was made (yet), or generateNovelOutline threw before making one
NoResponse == [text |-> "<none>", chapters |-> <<>>]

\* response.text of the plot-twist request
TwistTexts == {Throws, Undefined, "", "w1"}

\* response.text of the chapter-content request
ContentTexts == {Throws, Undefined, "", "c1"}

Failure == [ok |-> FALSE, value |-> Undefined]

\* mutant: ids taken from the 0-based array index
MapChapters_ZeroBasedIds(chapters) ==
    [p \in 1 .. Len(chapters) |->
        [id |-> p - 1, title |-> chapters[p].title, summary |-> chapters[p].summary,
         content |-> Undefined, isGenerating |-> Undefined]]

\* parsed.chapters.map((c, index) => ({id: index + 1, title, summary, content: undefined}))
MapChapters(chapters) ==
    [p \in 1 .. Len(chapters) |->
        [id |-> (p - 1) + 1, title |-> chapters[p].title, summary |-> chapters[p].summary,
         content |-> Undefined, isGenerating |-> Undefined]]

\* the promise of generateNovelOutline: ok = resolved with value, ~ok = rejected
generateNovelOutline(key, response) ==
    IF ~key THEN [ok |-> FALSE, value |-> <<>>]                              \* API Key is missing
    ELSE IF response.text = Throws THEN [ok |-> FALSE, value |-> <<>>]
    ELSE IF ~Truthy(response.text) THEN [ok |-> FALSE, value |-> <<>>]       \* No content generated
    ELSE IF response.text = "malformed" THEN [ok |-> FALSE, value |-> <<>>]  \* JSON.parse throws
    ELSE IF response.text = "no-chapters-key" THEN [ok |-> FALSE, value |-> <<>>] \* undefined.map throws
    ELSE [ok |-> TRUE, value |-> MapChapters(response.chapters)]

\* mutant: no fallback to the chapter's summary when the text is empty
generatePlotTwist_NoFallback(key, chapter, text) ==
    IF ~key \/ text = Throws THEN Failure
    ELSE [ok |-> TRUE, value |-> text]

\* the promise of generatePlotTwist
generatePlotTwist(key, chapter, text) ==
    IF ~key \/ text = Throws THEN Failure
    ELSE [ok |-> TRUE, value |-> OrElse(text, chapter.summary)]

\* the promise of generateChapterContent
\* mutant: the reply's text is returned as it is, empty or absent included
generateChapterContent_NoFallback(key, text) ==
    IF ~key \/ text = Throws THEN Failure
    ELSE [ok |-> TRUE, value |-> text]

generateChapterContent(key, text) ==
    IF ~key \/ text = Throws THEN Failure
    ELSE [ok |-> TRUE, value |-> OrElse(text, ContentFallback)]

\* Array.prototype.join: the elements with sep between neighbours
RECURSIVE Join(_, _)
Join(strings, sep) ==
    IF strings = <<>> THEN ""
    ELSE IF Len(strings) = 1 THEN strings[1]
    ELSE strings[1] \o sep \o Join(Tail(strings), sep)

\* `(chapter-word) ${c.id}: ${c.summary}`
ContextLine(c) == "chapter " \o ToString(c.id) \o ": " \o c.summary

\* mutant: only the chapters already written enter the context
ContextSummary_WrittenOnly(outline, index) ==
    LET prevChapters == SelectSeq(SubSeq(outline, 1, index), LAMBDA c : Truthy(c.content))
    IN  Join([p \in 1 .. Len(prevChapters) |-> ContextLine(prevChapters[p])], "\n")

\* prevChapters = novelData.outline.slice(0, index);
\* contextSummary = prevChapters.map(c => line of c).join('\n')
ContextSummary(outline, index) ==
    LET prevChapters == SubSeq(outline, 1, index)
    IN  Join([p \in 1 .. Len(prevChapters) |-> ContextLine(prevChapters[p])], "\n")

\* the arguments of the service call an invocation is awaiting
Request(op) ==
    CASE op.pc = "awaitContent" ->
            [fn |-> "generateChapterContent", chapter |-> op.chapter, context |-> op.context]
      [] op.pc = "awaitTwist" ->
            [fn |-> "generatePlotTwist", chapter |-> op.chapter, context |-> op.context]
      [] op.pc = "awaitTwistContent" ->
            [fn |-> "generateChapterContent",
             chapter |-> [op.chapter EXCEPT !.summary = op.newSummary],
             context |-> op.context]
      [] OTHER -> [fn |-> "none", chapter |-> NoChapter, context |-> ""]

\* ------------------------------------------------------------------ Init
\* -------------------------------------------------- NovelReader's state
NoDownload == [name |-> Null, text |-> Null]

PlayIds == 1 .. MaxPlays

\* audioSourceRef.current = null
NoSource == 0

\* status: "none" (not started), "awaitSpeech" (awaiting generateSpeech),
\* "playing" (source.start() called, audible), "stopped" (source.stop() called,
\* its ended event not yet dispatched), "over" (ended event handled, or the
\* request failed); chapter: the index of the chapter whose content is read
NoPlay == [status |-> "none", chapter |-> 0]

FreePlay == CHOOSE p \in PlayIds : plays[p].status = "none" /\ \A q \in 1 .. p - 1 : plays[q].status # "none"

SpeechReplies == {Throws, Undefined, "audio1"}

\* generateSpeech: throws without key and when the reply carries no audio data
generateSpeech(key, reply) ==
    IF ~key \/ reply = Throws \/ ~Truthy(reply) THEN Failure
    ELSE [ok |-> TRUE, value |-> reply]

\* stopAudio(): stop the tracked source if there is one, forget it, go idle
StopAudio ==
    /\ plays' = IF audioSourceRef # NoSource /\ plays[audioSourceRef].status = "playing"
                THEN [plays EXCEPT ![audioSourceRef].status = "stopped"]
                ELSE plays
    /\ audioSourceRef' = NoSource
    /\ audioState' = "idle"

Init ==
    /\ apiKey \in BOOLEAN
    /\ appState = SETUP
    /\ isLoading = FALSE
    /\ error = Null
    /\ novelData = [config |-> EmptyConfig, outline |-> <<>>, currentChapterIndex |-> 0]
    /\ startCall = [pc |-> "idle", config |-> EmptyConfig, response |-> NoResponse]
    /\ ops = [k \in OpIds |-> NoOp]
    /\ alertOpen = NoAlert
    /\ lastCall = NoCall
    /\ download = NoDownload
    /\ audioState = "idle"
    /\ audioSourceRef = NoSource
    /\ plays = [p \in PlayIds |-> NoPlay]

\* ----------------------------------------------------------- handleStart

\* mutant: the previous error is left on screen when a new attempt starts
HandleStart_KeepsError(config) ==
    /\ alertOpen = NoAlert
    /\ appState = SETUP
    /\ ~isLoading
    /\ isLoading' = TRUE
    /\ startCall' = [pc |-> "await", config |-> config, response |-> NoResponse]
    /\ lastCall' = Call("start", 0)
    /\ UNCHANGED <<apiKey, appState, error, novelData, ops, alertOpen, readerVars>>

\* SetupForm is mounted only in SETUP and its submit button is disabled while isLoading
HandleStart(config) ==
    /\ alertOpen = NoAlert
    /\ appState = SETUP
    /\ ~isLoading
    /\ isLoading' = TRUE
    /\ error' = Null
    /\ startCall' = [pc |-> "await", config |-> config, response |-> NoResponse]
    /\ lastCall' = Call("start", 0)
    /\ UNCHANGED <<apiKey, appState, novelData, ops, alertOpen, readerVars>>

\* the await returned an outline
HandleStartResolved(response) ==
    /\ alertOpen = NoAlert
    /\ startCall.pc = "await"
    /\ generateNovelOutline(apiKey, response).ok
    /\ novelData' = [config |-> startCall.config,
                     outline |-> generateNovelOutline(apiKey, response).value,
                     currentChapterIndex |-> 0]
    /\ appState' = READING
    /\ isLoading' = FALSE
    /\ startCall' = [pc |-> "idle", config |-> EmptyConfig, response |-> response]
    /\ UNCHANGED <<apiKey, error, ops, alertOpen, lastCall, readerVars>>

\* the await threw
HandleStartRejected(response) ==
    /\ alertOpen = NoAlert
    /\ startCall.pc = "await"
    /\ ~generateNovelOutline(apiKey, response).ok
    /\ error' = OutlineErrorMsg
    /\ isLoading' = FALSE
    /\ startCall' = [pc |-> "idle", config |-> EmptyConfig,
                     response |-> IF apiKey THEN response ELSE NoResponse]
    /\ UNCHANGED <<apiKey, appState, novelData, ops, alertOpen, lastCall, readerVars>>

\* ------------------------------------------------- handleGenerateChapter

\* NovelReader, which calls the chapter handlers, is mounted only in READING
ReaderMounted == appState = READING /\ alertOpen = NoAlert

\* mutant: the guard forgets the content test
GenerateGuard_FlagOnly(chapter) == Truthy(chapter.isGenerating)

GenerateGuard(chapter) == Truthy(chapter.content) \/ Truthy(chapter.isGenerating)

HandleGenerateChapter(index) ==
    /\ ReaderMounted
    /\ index \in Indexes(novelData.outline)
    /\ lastCall' = Call("generate", index)
    /\ LET chapter == At(novelData.outline, index) IN
       IF GenerateGuard(chapter)
       THEN UNCHANGED <<novelData, ops>>
       ELSE /\ FreeOp # 0
            /\ novelData' = ReplaceChapter(novelData, index,
                                [At(novelData.outline, index) EXCEPT !.isGenerating = "true"])
            /\ ops' = [ops EXCEPT ![FreeOp] =
                          [kind |-> "generate", pc |-> "awaitContent", index |-> index,
                           chapter |-> chapter,
                           context |-> ContextSummary(novelData.outline, index),
                           newSummary |-> Undefined]]
    /\ UNCHANGED <<apiKey, appState, isLoading, error, startCall, alertOpen, readerVars>>

\* mutant: the content is stored while the chapter stays marked as generating
GenerateResolved_FlagStays(k, text) ==
    /\ alertOpen = NoAlert
    /\ ops[k].kind = "generate" /\ ops[k].pc = "awaitContent"
    /\ generateChapterContent(apiKey, text).ok
    /\ LET index == ops[k].index IN
       novelData' = ReplaceChapter(novelData, index,
                        [At(novelData.outline, index) EXCEPT
                            !.content = generateChapterContent(apiKey, text).value])
    /\ ops' = [ops EXCEPT ![k] = DoneOp]
    /\ UNCHANGED <<apiKey, appState, isLoading, error, startCall, alertOpen, lastCall, readerVars>>

GenerateResolved(k, text) ==
    /\ alertOpen = NoAlert
    /\ ops[k].kind = "generate" /\ ops[k].pc = "awaitContent"
    /\ generateChapterContent(apiKey, text).ok
    /\ LET index == ops[k].index IN
       novelData' = ReplaceChapter(novelData, index,
                        [At(novelData.outline, index) EXCEPT
                            !.content = generateChapterContent(apiKey, text).value,
                            !.isGenerating = "false"])
    /\ ops' = [ops EXCEPT ![k] = DoneOp]
    /\ UNCHANGED <<apiKey, appState, isLoading, error, startCall, alertOpen, lastCall, readerVars>>

\* mutant: the catch block does not revert the generating state
GenerateRejected_FlagLeftSet(k, text) ==
    /\ alertOpen = NoAlert
    /\ ops[k].kind = "generate" /\ ops[k].pc = "awaitContent"
    /\ ~generateChapterContent(apiKey, text).ok
    /\ alertOpen' = [msg |-> GenerateAlertMsg, err |-> "generateChapterContent"]
    /\ ops' = [ops EXCEPT ![k] = DoneOp]
    /\ UNCHANGED <<apiKey, appState, isLoading, error, novelData, startCall, lastCall, readerVars>>

GenerateRejected(k, text) ==
    /\ alertOpen = NoAlert
    /\ ops[k].kind = "generate" /\ ops[k].pc = "awaitContent"
    /\ ~generateChapterContent(apiKey, text).ok
    /\ LET index == ops[k].index IN
       novelData' = ReplaceChapter(novelData, index,
                        [At(novelData.outline, index) EXCEPT !.isGenerating = "false"])
    /\ alertOpen' = [msg |-> GenerateAlertMsg, err |-> "generateChapterContent"]
    /\ ops' = [ops EXCEPT ![k] = DoneOp]
    /\ UNCHANGED <<apiKey, appState, isLoading, error, startCall, lastCall, readerVars>>

\* ------------------------------------------------------------ handleTwist
\* mutant: no guard
TwistGuard_Never(chapter) == FALSE

TwistGuard(chapter) == Truthy(chapter.isGenerating)

HandleTwist(index) ==
    /\ ReaderMounted
    /\ index \in Indexes(novelData.outline)
    /\ lastCall' = Call("twist", index)
    /\ LET chapter == At(novelData.outline, index) IN
       IF TwistGuard(chapter)
       THEN UNCHANGED <<novelData, ops>>
       ELSE /\ FreeOp # 0
            /\ novelData' = ReplaceChapter(novelData, index,
                                [At(novelData.outline, index) EXCEPT !.isGenerating = "true"])
            /\ ops' = [ops EXCEPT ![FreeOp] =
                          [kind |-> "twist", pc |-> "awaitTwist", index |-> index,
                           chapter |-> chapter,
                           context |-> ContextSummary(novelData.outline, index),
                           newSummary |-> Undefined]]
    /\ UNCHANGED <<apiKey, appState, isLoading, error, startCall, alertOpen, readerVars>>

\* mutant: the new summary is kept for the final update only
TwistRewriteResolved_SummaryNotStored(k, text) ==
    /\ alertOpen = NoAlert
    /\ ops[k].kind = "twist" /\ ops[k].pc = "awaitTwist"
    /\ generatePlotTwist(apiKey, ops[k].chapter, text).ok
    /\ ops' = [ops EXCEPT ![k].pc = "awaitTwistContent",
                          ![k].newSummary = generatePlotTwist(apiKey, ops[k].chapter, text).value]
    /\ UNCHANGED <<apiKey, appState, isLoading, error, novelData, startCall, alertOpen, lastCall, readerVars>>

\* 1. newSummary arrived; 2. it is stored; 3. the content request is issued
TwistRewriteResolved(k, text) ==
    /\ alertOpen = NoAlert
    /\ ops[k].kind = "twist" /\ ops[k].pc = "awaitTwist"
    /\ generatePlotTwist(apiKey, ops[k].chapter, text).ok
    /\ LET index == ops[k].index
           newSummary == generatePlotTwist(apiKey, ops[k].chapter, text).value IN
       /\ novelData' = ReplaceChapter(novelData, index,
                           [At(novelData.outline, index) EXCEPT !.summary = newSummary])
       /\ ops' = [ops EXCEPT ![k].pc = "awaitTwistContent", ![k].newSummary = newSummary]
    /\ UNCHANGED <<apiKey, appState, isLoading, error, startCall, alertOpen, lastCall, readerVars>>

\* mutant: the catch block rolls the chapter back to a stub
TwistCatch_ClearsContent(k, err) ==
    /\ LET index == ops[k].index IN
       novelData' = ReplaceChapter(novelData, index,
                        [At(novelData.outline, index) EXCEPT !.content = Undefined,
                                                             !.isGenerating = "false"])
    /\ alertOpen' = [msg |-> TwistAlertMsg, err |-> err]
    /\ ops' = [ops EXCEPT ![k] = DoneOp]
    /\ UNCHANGED <<apiKey, appState, isLoading, error, startCall, lastCall, readerVars>>

\* the catch block, entered from either await
TwistCatch(k, err) ==
    /\ LET index == ops[k].index IN
       novelData' = ReplaceChapter(novelData, index,
                        [At(novelData.outline, index) EXCEPT !.isGenerating = "false"])
    /\ alertOpen' = [msg |-> TwistAlertMsg, err |-> err]
    /\ ops' = [ops EXCEPT ![k] = DoneOp]
    /\ UNCHANGED <<apiKey, appState, isLoading, error, startCall, lastCall, readerVars>>

TwistRewriteRejected(k, text) ==
    /\ alertOpen = NoAlert
    /\ ops[k].kind = "twist" /\ ops[k].pc = "awaitTwist"
    /\ ~generatePlotTwist(apiKey, ops[k].chapter, text).ok
    /\ TwistCatch(k, "generatePlotTwist")

TwistContentResolved(k, text) ==
    /\ alertOpen = NoAlert
    /\ ops[k].kind = "twist" /\ ops[k].pc = "awaitTwistContent"
    /\ generateChapterContent(apiKey, text).ok
    /\ LET index == ops[k].index IN
       novelData' = ReplaceChapter(novelData, index,
                        [At(novelData.outline, index) EXCEPT
                            !.summary = ops[k].newSummary,
                            !.content = generateChapterContent(apiKey, text).value,
                            !.isGenerating = "false"])
    /\ ops' = [ops EXCEPT ![k] = DoneOp]
    /\ UNCHANGED <<apiKey, appState, isLoading, error, startCall, alertOpen, lastCall, readerVars>>

TwistContentRejected(k, text) ==
    /\ alertOpen = NoAlert
    /\ ops[k].kind = "twist" /\ ops[k].pc = "awaitTwistContent"
    /\ ~generateChapterContent(apiKey, text).ok
    /\ TwistCatch(k, "generateChapterContent")

\* ------------------------------------------------ navigation and dialogs
\* mutant: selecting a chapter also resets its generating state
HandleSelectChapter_ResetsFlag(index) ==
    /\ ReaderMounted
    /\ index \in Indexes(novelData.outline)
    /\ novelData' = [ReplaceChapter(novelData, index,
                         [At(novelData.outline, index) EXCEPT !.isGenerating = "false"])
                     EXCEPT !.currentChapterIndex = index]
    /\ IF index # novelData.currentChapterIndex
       THEN StopAudio
       ELSE UNCHANGED <<audioState, audioSourceRef, plays>>
    /\ UNCHANGED <<apiKey, appState, isLoading, error, startCall, ops, alertOpen, lastCall, download>>

HandleSelectChapter(index) ==
    /\ ReaderMounted
    /\ index \in Indexes(novelData.outline)
    /\ novelData' = [novelData EXCEPT !.currentChapterIndex = index]
    \* useEffect(..., [data.currentChapterIndex]) of NovelReader
    /\ IF index # novelData.currentChapterIndex
       THEN StopAudio
       ELSE UNCHANGED <<audioState, audioSourceRef, plays>>
    /\ UNCHANGED <<apiKey, appState, isLoading, error, startCall, ops, alertOpen, lastCall, download>>

\* the close button of the error toast: onClick={() => setError(null)}
DismissError ==
    /\ alertOpen = NoAlert
    /\ Truthy(error)
    /\ error' = Null
    /\ UNCHANGED <<apiKey, appState, isLoading, novelData, startCall, ops, alertOpen, lastCall, readerVars>>

\* the user closes the alert() dialog; the blocked handler returns
DismissAlert ==
    /\ alertOpen # NoAlert
    /\ alertOpen' = NoAlert
    \* handlePlayAudio's catch block goes on after its alert(): setAudioState('idle')
    /\ audioState' = IF alertOpen.msg = AudioAlertMsg THEN "idle" ELSE audioState
    /\ UNCHANGED <<apiKey, appState, isLoading, error, novelData, startCall, ops, lastCall,
                   download, audioSourceRef, plays>>

Next ==
    \/ \E config \in Premises : HandleStart(config)
    \/ \E response \in OutlineResponses : HandleStartResolved(response)
    \/ \E response \in OutlineResponses : HandleStartRejected(response)
    \/ \E index \in 0 .. MaxChapters : HandleGenerateChapter(index)
    \/ \E k \in OpIds, text \in ContentTexts : GenerateResolved(k, text)
    \/ \E k \in OpIds, text \in ContentTexts : GenerateRejected(k, text)
    \/ \E index \in 0 .. MaxChapters : HandleTwist(index)
    \/ \E k \in OpIds, text \in TwistTexts : TwistRewriteResolved(k, text)
    \/ \E k \in OpIds, text \in TwistTexts : TwistRewriteRejected(k, text)
    \/ \E k \in OpIds, text \in ContentTexts : TwistContentResolved(k, text)
    \/ \E k \in OpIds, text \in ContentTexts : TwistContentRejected(k, text)
    \/ \E index \in 0 .. MaxChapters : HandleSelectChapter(index)
    \/ DismissError
    \/ DismissAlert

Spec == Init /\ [][Next]_vars

\* the await of invocation k returns or throws and its continuation runs
OpContinues(k) ==
    \/ \E text \in ContentTexts : GenerateResolved(k, text) \/ GenerateRejected(k, text)
    \/ \E text \in TwistTexts : TwistRewriteResolved(k, text) \/ TwistRewriteRejected(k, text)
    \/ \E text \in ContentTexts : TwistContentResolved(k, text) \/ TwistContentRejected(k, text)

\* The session for the progress properties: the same handlers, with one
\* premise and without chapter selection (neither the premise's text nor the
\* cursor is read by any guard of the chapter handlers).
LiveNext ==
    \/ HandleStart("premiseA")
    \/ \E response \in OutlineResponses : HandleStartResolved(response)
    \/ \E response \in OutlineResponses : HandleStartRejected(response)
    \/ \E index \in 0 .. MaxChapters : HandleGenerateChapter(index)
    \/ \E k \in OpIds, text \in ContentTexts : GenerateResolved(k, text)
    \/ \E k \in OpIds, text \in ContentTexts : GenerateRejected(k, text)
    \/ \E index \in 0 .. MaxChapters : HandleTwist(index)
    \/ \E k \in OpIds, text \in TwistTexts : TwistRewriteResolved(k, text)
    \/ \E k \in OpIds, text \in TwistTexts : TwistRewriteRejected(k, text)
    \/ \E k \in OpIds, text \in ContentTexts : TwistContentResolved(k, text)
    \/ \E k \in OpIds, text \in ContentTexts : TwistContentRejected(k, text)
    \/ DismissError
    \/ DismissAlert

\* while service calls are pending one of them returns or throws and the event
\* loop runs its continuation, and the user closes every alert() dialog
LiveSpec ==
    /\ Init
    /\ [][LiveNext]_vars
    /\ WF_vars(\E k \in OpIds : OpContinues(k))
    /\ WF_vars(DismissAlert)

\* ------------------------------------------------------------ NovelReader
ExportDelimiter == "\n\n-------------------\n\n"

\* `(chapter-word) ${c.id}: ${c.title}\n\n${c.content}`
ExportBlock(c) == "chapter " \o ToString(c.id) \o ": " \o c.title \o "\n\n" \o c.content

\* mutant: every chapter of the outline is exported, written or not
ExportText_AllChapters(outline) ==
    Join([p \in 1 .. Len(outline) |-> ExportBlock(outline[p])], ExportDelimiter)

\* data.outline.filter(c => c.content).map(block of c).join(delimiter)
ExportText(outline) ==
    LET written == SelectSeq(outline, LAMBDA c : Truthy(c.content))
    IN  Join([p \in 1 .. Len(written) |-> ExportBlock(written[p])], ExportDelimiter)

\* handleExport: a Blob of the text is downloaded as `${data.config.title}.txt`
HandleExport ==
    /\ ReaderMounted
    /\ download' = [name |-> novelData.config \o ".txt", text |-> ExportText(novelData.outline)]
    /\ UNCHANGED <<apiKey, appState, isLoading, error, novelData, startCall, ops, alertOpen,
                   lastCall, audioState, audioSourceRef, plays>>

\* the audio button: shown for a written chapter that is not being generated,
\* disabled while loading; a click while playing stops, otherwise it starts a
\* speech request for the current chapter's content
HandlePlayAudio ==
    /\ ReaderMounted
    /\ novelData.currentChapterIndex \in Indexes(novelData.outline)
    /\ LET currentChapter == At(novelData.outline, novelData.currentChapterIndex) IN
       /\ Truthy(currentChapter.content) /\ ~Truthy(currentChapter.isGenerating)
       /\ audioState # "loading"
       /\ \/ /\ audioState = "playing"
             /\ StopAudio
          \/ /\ audioState # "playing"
             /\ \E p \in PlayIds : plays[p].status = "none"
             /\ audioState' = "loading"
             /\ plays' = [plays EXCEPT ![FreePlay] =
                            [status |-> "awaitSpeech",
                             chapter |-> novelData.currentChapterIndex]]
             /\ UNCHANGED audioSourceRef
    /\ UNCHANGED <<apiKey, appState, isLoading, error, novelData, startCall, ops, alertOpen,
                   lastCall, download>>

\* generateSpeech and decodeAudioData return: the clip starts and is tracked
SpeechResolved(p, reply) ==
    /\ alertOpen = NoAlert
    /\ plays[p].status = "awaitSpeech"
    /\ generateSpeech(apiKey, reply).ok
    /\ plays' = [plays EXCEPT ![p].status = "playing"]
    /\ audioSourceRef' = p
    /\ audioState' = "playing"
    /\ UNCHANGED <<apiKey, appState, isLoading, error, novelData, startCall, ops, alertOpen,
                   lastCall, download>>

\* generateSpeech throws: the catch block opens its alert()
SpeechRejected(p, reply) ==
    /\ alertOpen = NoAlert
    /\ plays[p].status = "awaitSpeech"
    /\ ~generateSpeech(apiKey, reply).ok
    /\ plays' = [plays EXCEPT ![p].status = "over"]
    /\ alertOpen' = [msg |-> AudioAlertMsg, err |-> "generateSpeech"]
    /\ UNCHANGED <<apiKey, appState, isLoading, error, novelData, startCall, ops,
                   lastCall, download, audioState, audioSourceRef>>

\* source.onended of clip p, dispatched after the clip played to its end or
\* after source.stop()
OnEnded(p) ==
    /\ alertOpen = NoAlert
    /\ plays[p].status \in {"playing", "stopped"}
    /\ plays' = [plays EXCEPT ![p].status = "over"]
    /\ audioState' = "idle"
    /\ audioSourceRef' = NoSource
    /\ UNCHANGED <<apiKey, appState, isLoading, error, novelData, startCall, ops, alertOpen,
                   lastCall, download>>

\* the session with the reader's export button
ExportNext ==
    \/ LiveNext
    \/ HandleExport

ExportSpec == Init /\ [][ExportNext]_vars

\* the session with the reader's audio player
ReaderNext ==
    \/ Next
    \/ HandlePlayAudio
    \/ \E p \in PlayIds, reply \in SpeechReplies : SpeechResolved(p, reply)
    \/ \E p \in PlayIds, reply \in SpeechReplies : SpeechRejected(p, reply)
    \/ \E p \in PlayIds : OnEnded(p)

ReaderSpec == Init /\ [][ReaderNext]_vars

\* ------------------------------------------------------------ properties
Outline == novelData.outline

Cursor == novelData.currentChapterIndex

\* the step in which handleStart's await returns or throws and the handler ends
StartSettles == startCall.pc = "await" /\ startCall'.pc = "idle"

\* READING over the whole outline of the provider's response, nothing generated yet
FreshOutlineShape ==
    /\ appState = READING
    /\ Len(Outline) = Len(startCall.response.chapters)
    /\ \A p \in 1 .. Len(Outline) :
          /\ Outline[p].id = p
          /\ Outline[p].title = startCall.response.chapters[p].title
          /\ Outline[p].summary = startCall.response.chapters[p].summary
          /\ Outline[p].content = Undefined
          /\ Outline[p].isGenerating = Undefined
    /\ Cursor = 0

\* still SETUP, with the error shown and no chapter
FailedStartShape ==
    /\ appState = SETUP
    /\ Truthy(error)
    /\ Outline = <<>>

\* C1: when handleStart settles the session is either READING with the whole
\* outline (ids 1..N in order, no content, no generating flag, cursor 0) or
\* still SETUP with an error and an empty outline, never both; and no state
\* has chapters while in SETUP or an outline shorter than the provider's.
C1_OutlineAllOrNothing ==
    /\ [][StartSettles => (FreshOutlineShape' /\ ~FailedStartShape') \/ (FailedStartShape' /\ ~FreshOutlineShape')]_vars
    /\ [](appState = SETUP => Outline = <<>>)
    /\ [](appState = READING => Len(Outline) = Len(startCall.response.chapters))

C1_Witness ==
    /\ appState = READING
    /\ Len(Outline) = MaxChapters
    /\ lastCall.name = "start"
    /\ startCall.pc = "idle"

HasContent(outline, i) == Truthy(At(outline, i).content)

IsGenerating(outline, i) == Truthy(At(outline, i).isGenerating)

\* the invocations in flight on chapter i
OpsOn(i) == {k \in OpIds : InFlight(ops[k]) /\ ops[k].index = i}

GenerateInFlightOn(i) == \E k \in OpsOn(i) : ops[k].kind = "generate"

TwistInFlightOn(i) == \E k \in OpsOn(i) : ops[k].kind = "twist"

\* C2, at the call: generate-chapter(i) on a chapter without content that is
\* not generating sets isGenerating and leaves the content request pending
C2_MarksSynchronously ==
    \A i \in Indexes(Outline) :
        (HandleGenerateChapter(i) /\ ~HasContent(Outline, i) /\ ~IsGenerating(Outline, i))
        => /\ At(Outline', i).isGenerating = "true"
           /\ \E k \in OpIds : /\ ops[k].pc = "none"
                                /\ ops'[k].pc = "awaitContent"
                                /\ ops'[k].index = i

\* C2, at the end: the chapter has content, or has none and the alert is shown
C2_SettlesOneWay ==
    \A k \in OpIds :
        (ops[k].kind = "generate" /\ InFlight(ops[k]) /\ ~InFlight(ops'[k]))
        => LET i == ops[k].index IN
           /\ At(Outline', i).isGenerating = "false"
           /\ \/ HasContent(Outline', i) /\ alertOpen' = NoAlert
              \/ ~HasContent(Outline', i) /\ alertOpen'.msg = GenerateAlertMsg

\* C2: generate-chapter(i) on a stub chapter sets isGenerating at once, and
\* once the provider replies or fails the chapter ends not generating, with
\* content, or without content and with the error shown.
C2_GenerateChapterLifecycle ==
    /\ [][C2_MarksSynchronously /\ C2_SettlesOneWay]_vars
    /\ \A i \in 0 .. MaxChapters - 1 :
          GenerateInFlightOn(i)
          ~> (/\ i \in Indexes(Outline)
              /\ ~IsGenerating(Outline, i)
              /\ HasContent(Outline, i) \/ alertOpen.msg = GenerateAlertMsg)

C2_Witness ==
    \E i \in Indexes(Outline) :
        /\ GenerateInFlightOn(i)
        /\ At(Outline, i).isGenerating = "true"
        /\ ~HasContent(Outline, i)

\* C3: generate-chapter(i) on a chapter with content or generating, and
\* twist(i) on a generating chapter, change neither the novel nor the calls
\* in flight; a chapter with content starts generating only by twist(i).
C3_GuardedCallsAreNoOps ==
    [][\A i \in Indexes(Outline) :
        /\ (HandleGenerateChapter(i) /\ (HasContent(Outline, i) \/ IsGenerating(Outline, i)))
           => UNCHANGED <<novelData, ops>>
        /\ (HandleTwist(i) /\ IsGenerating(Outline, i))
           => UNCHANGED <<novelData, ops>>
        /\ (HasContent(Outline, i) /\ ~IsGenerating(Outline, i) /\ IsGenerating(Outline', i))
           => HandleTwist(i)]_vars

\* generate-chapter(i) was invoked while a twist of chapter i, which has content, is in flight
C3_Witness ==
    \E i \in Indexes(Outline) :
        /\ lastCall = [name |-> "generate", index |-> i]
        /\ TwistInFlightOn(i)
        /\ HasContent(Outline, i)

\* C4: at most one generate-chapter or twist invocation is in flight per chapter.
C4_OneOperationPerChapter ==
    \A i \in Indexes(Outline) : Cardinality(OpsOn(i)) <= 1

\* twist(i) was invoked while generate-chapter(i) is in flight
C4_Witness ==
    \E i \in Indexes(Outline) :
        /\ lastCall = [name |-> "twist", index |-> i]
        /\ GenerateInFlightOn(i)

\* the chapter an invocation works on, read in the step that starts or continues it
OpIndex(k) == IF ops[k].pc = "none" THEN ops'[k].index ELSE ops[k].index

\* C5: every state update of an operation on chapter i changes only chapter
\* i's summary, content and generating flag of the state it is applied to.
C5_UpdatesTouchOwnChapterOnly ==
    [][\A k \in OpIds :
        ops'[k] # ops[k]
        => /\ novelData'.config = novelData.config
           /\ Cursor' = Cursor
           /\ Len(Outline') = Len(Outline)
           /\ \A j \in Indexes(Outline) : j # OpIndex(k) => At(Outline', j) = At(Outline, j)
           /\ At(Outline', OpIndex(k)).id = At(Outline, OpIndex(k)).id
           /\ At(Outline', OpIndex(k)).title = At(Outline, OpIndex(k)).title]_vars

\* invocation 2 started after invocation 1 on another chapter and wrote its
\* content while invocation 1 is still in flight, with the cursor elsewhere
C5_Witness ==
    /\ InFlight(ops[1])
    /\ ops[2].pc = "done"
    /\ \A k \in OpIds : k > 2 => ops[k].pc = "none"
    /\ \E j \in Indexes(Outline) : j # ops[1].index /\ HasContent(Outline, j) /\ Cursor # j

NonEmptyString(v) == v \notin {Undefined, Null, ""}

\* the step in which twist invocation k ends, from its try or its catch block
TwistSettles(k) == ops[k].kind = "twist" /\ InFlight(ops[k]) /\ ops'[k].pc = "done"

\* C6: when twist(i) settles the chapter's summary is the one it had at the
\* call or a non-empty string, and isGenerating is false; the flag is set only
\* while an invocation on the chapter is in flight.
C6_TwistLeavesSummaryAndClearsFlag ==
    /\ [][\A k \in OpIds :
            TwistSettles(k)
            => LET i == ops[k].index IN
               /\ \/ At(Outline', i).summary = ops[k].chapter.summary
                  \/ NonEmptyString(At(Outline', i).summary)
               /\ At(Outline', i).isGenerating = "false"]_vars
    /\ [](\A i \in Indexes(Outline) : IsGenerating(Outline, i) => OpsOn(i) # {})

\* a twist of chapter i has settled with a rewritten summary and new content
C6_Witness ==
    \E i \in Indexes(Outline) :
        /\ lastCall = [name |-> "twist", index |-> i]
        /\ OpsOn(i) = {}
        /\ At(Outline, i).summary = "w1"
        /\ HasContent(Outline, i)
        /\ At(Outline, i).isGenerating = "false"

\* C7: when the twist-rewrite call of twist(i) fails, the chapter keeps the
\* summary and content it had at the call, isGenerating is false, the alert
\* is shown and the invocation ends without a chapter-content request.
C7_RewriteFailureChangesNothing ==
    [][\A k \in OpIds, text \in TwistTexts :
        TwistRewriteRejected(k, text)
        => LET i == ops[k].index IN
           /\ At(Outline', i).summary = ops[k].chapter.summary
           /\ At(Outline', i).content = ops[k].chapter.content
           /\ At(Outline', i).isGenerating = "false"
           /\ alertOpen'.msg = TwistAlertMsg
           /\ ops'[k].pc = "done"]_vars

\* the rewrite call of a twist of a chapter that has content has just failed
C7_Witness ==
    \E i \in Indexes(Outline) :
        /\ alertOpen = [msg |-> TwistAlertMsg, err |-> "generatePlotTwist"]
        /\ lastCall = [name |-> "twist", index |-> i]
        /\ HasContent(Outline, i)
        /\ ~IsGenerating(Outline, i)

\* C8: while twist(i) awaits the chapter content the new summary is already in
\* the chapter; when that request fails the chapter holds the new summary and
\* the content it had at the call, isGenerating is false and the alert is shown.
C8_ContentFailureKeepsNewSummary ==
    /\ [](\A k \in OpIds :
            ops[k].pc = "awaitTwistContent"
            => At(Outline, ops[k].index).summary = ops[k].newSummary)
    /\ [][\A k \in OpIds, text \in ContentTexts :
            TwistContentRejected(k, text)
            => LET i == ops[k].index IN
               /\ At(Outline', i).summary = ops[k].newSummary
               /\ At(Outline', i).content = ops[k].chapter.content
               /\ At(Outline', i).isGenerating = "false"
               /\ alertOpen'.msg = TwistAlertMsg]_vars

\* the content request of a twist has just failed: new summary, old content
C8_Witness ==
    \E i \in Indexes(Outline) :
        /\ alertOpen = [msg |-> TwistAlertMsg, err |-> "generateChapterContent"]
        /\ lastCall = [name |-> "twist", index |-> i]
        /\ At(Outline, i).summary = "w1"
        /\ HasContent(Outline, i)
        /\ ~IsGenerating(Outline, i)

\* C9: an outline with zero chapters is a failure of the outline step, so
\* the session is never READING with an empty chapter sequence.
C9_EmptyOutlineNeverRead ==
    appState = READING => Len(Outline) >= 1

\* C10: the cursor is a valid index into the session's chapter sequence,
\* 0 <= cursor < number of chapters.
C10_CursorIsValidIndex ==
    appState = READING => Cursor \in Indexes(Outline)

\* C11: selecting a valid index k sets the cursor to k and changes no chapter,
\* the premise, or any call in flight; the calls in flight stay able to
\* continue and write their result.
C11_SelectMovesCursorOnly ==
    /\ [][\A i \in Indexes(Outline) :
            HandleSelectChapter(i)
            => /\ Cursor' = i
               /\ Outline' = Outline
               /\ novelData'.config = novelData.config
               /\ ops' = ops]_vars
    /\ [](\A k \in OpIds :
            (InFlight(ops[k]) /\ alertOpen = NoAlert) => ENABLED OpContinues(k))

\* another chapter was selected and a call is in flight
C11_Witness ==
    /\ Cursor > 0
    /\ \E k \in OpIds : InFlight(ops[k]) /\ ops[k].index # Cursor

\* C12: once the session is READING the chapter sequence keeps its length,
\* order, titles and ids under every step, and the chapter at index p has id p + 1.
C12_OutlineIsFixed ==
    /\ [][appState = READING
            => /\ Len(Outline') = Len(Outline)
               /\ \A p \in 1 .. Len(Outline) :
                     /\ Outline'[p].id = Outline[p].id
                     /\ Outline'[p].title = Outline[p].title]_vars
    /\ [](\A i \in Indexes(Outline) :
            /\ At(Outline, i).id = i + 1
            /\ At(Outline, i).title = startCall.response.chapters[i + 1].title)

\* every chapter of the longest outline has been written and the cursor moved
C12_Witness ==
    /\ Len(Outline) = MaxChapters
    /\ Cursor > 0
    /\ \E i \in Indexes(Outline) : HasContent(Outline, i) /\ At(Outline, i).summary = "w1"
    /\ \A k \in OpIds : ops[k].pc = "done"

\* the step in which an operation ends in success
OperationSucceeds ==
    \/ \E response \in OutlineResponses : HandleStartResolved(response)
    \/ \E k \in OpIds, text \in ContentTexts :
          GenerateResolved(k, text) \/ TwistContentResolved(k, text)

RECURSIVE LinesBefore(_, _)
LinesBefore(outline, i) ==
    IF i = 0 THEN ""
    ELSE IF i = 1 THEN "chapter " \o ToString(outline[1].id) \o ": " \o outline[1].summary
    ELSE LinesBefore(outline, i - 1) \o "\n"
         \o "chapter " \o ToString(outline[i].id) \o ": " \o outline[i].summary

\* C15: the context passed by generate-chapter(i) and by twist(i) is the
\* newline-joined "chapter <id>: <summary>" lines of all chapters before i,
\* written or not, empty for i = 0; twist's content request passes the same
\* context as its rewrite request, with the new summary in the chapter.
C15_ContinuityContext ==
    /\ [][\A k \in OpIds :
            (ops[k].pc = "none" /\ InFlight(ops'[k]))
            => /\ Request(ops'[k]).context = LinesBefore(Outline, ops'[k].index)
               /\ ops'[k].index = 0 => Request(ops'[k]).context = ""]_vars
    /\ [][\A k \in OpIds :
            (ops[k].pc = "awaitTwist" /\ ops'[k].pc = "awaitTwistContent")
            => /\ Request(ops'[k]).context = Request(ops[k]).context
               /\ Request(ops'[k]).fn = "generateChapterContent"
               /\ Request(ops'[k]).chapter.summary = At(Outline', ops[k].index).summary
               /\ Request(ops'[k]).chapter.summary
                    = generatePlotTwist(apiKey, ops[k].chapter, "w1").value
                  \/ Request(ops'[k]).chapter.summary = ops[k].chapter.summary]_vars

\* a twist of the second chapter awaits its content, the first chapter being unwritten
C15_Witness ==
    \E k \in OpIds :
        /\ ops[k].pc = "awaitTwistContent"
        /\ ops[k].index = 1
        /\ ~HasContent(Outline, 0)
        /\ Request(ops[k]).context = "chapter 1: s1"
        /\ Request(ops[k]).chapter.summary = "w1"

\* a reply to a chapter-content request whose text is empty or absent
EmptyReplies == {Undefined, ""}

\* C16: a chapter-content reply with empty or absent text does not fail the
\* operation: the fallback string becomes the chapter's content, the flag is
\* cleared, no alert opens and no error is set; every successful generation
\* leaves a non-empty string as content and the flag false.
C16_EmptyReplyStoresFallback ==
    /\ [][\A k \in OpIds, text \in EmptyReplies :
            (/\ InFlight(ops[k]) /\ ops'[k].pc = "done"
             /\ GenerateResolved(k, text) \/ TwistContentResolved(k, text))
            => /\ At(Outline', ops[k].index).content = ContentFallback
               /\ At(Outline', ops[k].index).isGenerating = "false"
               /\ alertOpen' = NoAlert
               /\ error' = error /\ ~Truthy(error')]_vars
    /\ [][\A k \in OpIds :
            (/\ ops[k].pc \in {"awaitContent", "awaitTwistContent"} /\ ops'[k].pc = "done"
             /\ alertOpen' = NoAlert)
            => /\ NonEmptyString(At(Outline', ops[k].index).content)
               /\ At(Outline', ops[k].index).isGenerating = "false"]_vars

\* a chapter generated from an empty reply shows the fallback text
C16_Witness ==
    \E i \in Indexes(Outline) :
        /\ At(Outline, i).content = ContentFallback
        /\ At(Outline, i).isGenerating = "false"
        /\ lastCall = [name |-> "generate", index |-> i]
        /\ OpsOn(i) = {}
        /\ alertOpen = NoAlert

\* C17: every step that changes a chapter's content leaves that chapter's
\* isGenerating false; while an invocation on a chapter is in flight the
\* chapter's content is still the one it had when the invocation was made, so
\* isGenerating is never true together with content of the running attempt.
C17_ContentArrivesWithFlagCleared ==
    /\ [][\A i \in Indexes(Outline) :
            At(Outline', i).content # At(Outline, i).content
            => At(Outline', i).isGenerating = "false"]_vars
    /\ [](\A k \in OpIds :
            InFlight(ops[k])
            => At(Outline, ops[k].index).content = ops[k].chapter.content)
    /\ [](\A i \in Indexes(Outline) :
            IsGenerating(Outline, i)
            => \E k \in OpsOn(i) : At(Outline, i).content = ops[k].chapter.content)

\* a written chapter is being twisted: marked as generating, it still shows
\* the content it had before the twist
C17_Witness ==
    \E k \in OpIds :
        /\ ops[k].kind = "twist" /\ ops[k].pc = "awaitTwistContent"
        /\ IsGenerating(Outline, ops[k].index)
        /\ HasContent(Outline, ops[k].index)
        /\ At(Outline, ops[k].index).content = ops[k].chapter.content

\* the export of the first n chapters: one block per chapter with non-empty
\* content, in ascending position, the delimiter between consecutive blocks
RECURSIVE BlocksUpTo(_, _)
BlocksUpTo(outline, n) ==
    IF n = 0 THEN ""
    ELSE LET before == BlocksUpTo(outline, n - 1)
             c == outline[n]
             block == "chapter " \o ToString(c.id) \o ": " \o c.title \o "\n\n" \o c.content
         IN  IF ~NonEmptyString(c.content) THEN before
             ELSE IF before = "" THEN block
             ELSE before \o "\n\n-------------------\n\n" \o block

\* C13: the exported text is the blocks of the chapters with non-empty
\* content, by ascending id, with the delimiter between them and nothing for
\* the other chapters; an export changes nothing but the downloaded file and
\* starts no service call.
C13_ExportIsPure ==
    /\ [][download' # download
            => /\ download'.text = BlocksUpTo(Outline, Len(Outline))
               /\ download'.name = novelData.config \o ".txt"
               /\ UNCHANGED <<apiKey, appState, isLoading, error, novelData, startCall, ops,
                              alertOpen, lastCall, audioState, audioSourceRef, plays>>]_vars
    /\ [](\A p \in 1 .. Len(Outline) : Outline[p].id = p)
    /\ [](ReaderMounted => ENABLED HandleExport)

\* the downloaded file holds the block of the second chapter only, the first
\* chapter being unwritten
C13_Witness ==
    /\ Len(Outline) = 2
    /\ ~HasContent(Outline, 0)
    /\ \E k \in OpIds : InFlight(ops[k])
    /\ download = [name |-> "premiseA.txt", text |-> "chapter 2: t2\n\nc1"]

\* the clips that are audible
Playing == {p \in PlayIds : plays[p].status = "playing"}

\* C18: at most one clip is playing at any time, and a playing clip is the
\* source the player tracks in audioSourceRef.
C18_SinglePlayback ==
    /\ Cardinality(Playing) <= 1
    /\ \A p \in Playing : audioSourceRef = p

\* C19: a clip that is playing reads the chapter under the cursor: once the
\* cursor has moved to another chapter no clip of the chapter left behind is
\* playing or starts playing, a pending speech request for it included.
C19_NoClipOfAnotherChapter ==
    \A p \in Playing : plays[p].chapter = Cursor
====
